---------------------------- MODULE Spec2Model ----------------------------
(***************************************************************************)
(* A model of vp_bot.py: the session store, the country registries, the    *)
(* phrase normaliser, the country matcher, the intent hint source and the  *)
(* /chat handler (chat_response).                                          *)
(*                                                                         *)
(* A Python str is modelled as a tuple of one-character strings, so that   *)
(* strip(), lower(), title(), the `in` substring test, re.sub and          *)
(* re.findall are computed on characters as the code computes them.        *)
(***************************************************************************)
EXTENDS Integers, Sequences, FiniteSets, TLC

(***************************************************************************)
(* Characters and the str methods the code uses.                           *)
(***************************************************************************)
LowerLetters ==
    <<"a","b","c","d","e","f","g","h","i","j","k","l","m",
      "n","o","p","q","r","s","t","u","v","w","x","y","z">>

UpperLetters ==
    <<"A","B","C","D","E","F","G","H","I","J","K","L","M",
      "N","O","P","Q","R","S","T","U","V","W","X","Y","Z">>

LetterIdx == 1..Len(LowerLetters)

IsLower(c) == \E i \in LetterIdx : LowerLetters[i] = c

IsUpper(c) == \E i \in LetterIdx : UpperLetters[i] = c

\* The whitespace of str.strip() and of the regex class \s.
IsSpace(c) == c = " "

LowerChar(c) ==
    IF IsUpper(c) THEN LowerLetters[CHOOSE i \in LetterIdx : UpperLetters[i] = c]
    ELSE c

UpperChar(c) ==
    IF IsLower(c) THEN UpperLetters[CHOOSE i \in LetterIdx : LowerLetters[i] = c]
    ELSE c

\* str.lower()
lower(s) == [i \in 1..Len(s) |-> LowerChar(s[i])]

\* str.title(): a letter that follows a non-letter is upper-cased, any other
\* letter is lower-cased.
title(s) ==
    [i \in 1..Len(s) |->
        IF i = 1 \/ ~(IsLower(s[i-1]) \/ IsUpper(s[i-1]))
        THEN UpperChar(s[i]) ELSE LowerChar(s[i])]

RECURSIVE lstrip(_)
lstrip(s) == IF s # <<>> /\ IsSpace(Head(s)) THEN lstrip(Tail(s)) ELSE s

RECURSIVE rstrip(_)
rstrip(s) ==
    IF s # <<>> /\ IsSpace(s[Len(s)]) THEN rstrip(SubSeq(s, 1, Len(s) - 1)) ELSE s

\* str.strip()
strip(s) == rstrip(lstrip(s))

\* s.startswith(p)
StartsWith(s, p) == Len(p) <= Len(s) /\ SubSeq(s, 1, Len(p)) = p

\* Python's `sub in s` on two str values.
Contains(sub, s) ==
    \E i \in 0..(Len(s) - Len(sub)) : SubSeq(s, i + 1, i + Len(sub)) = sub

\* " ".join(words)
RECURSIVE join(_)
join(words) ==
    IF words = <<>> THEN <<>>
    ELSE IF Len(words) = 1 THEN words[1]
    ELSE words[1] \o <<" ">> \o join(Tail(words))

\* re.findall(r"[a-z]+", s): the maximal runs of lower-case letters, in order.
RECURSIVE findall_az(_, _, _)
findall_az(s, cur, acc) ==
    IF s = <<>> THEN (IF cur = <<>> THEN acc ELSE Append(acc, cur))
    ELSE IF IsLower(Head(s)) THEN findall_az(Tail(s), Append(cur, Head(s)), acc)
    ELSE findall_az(Tail(s), <<>>, IF cur = <<>> THEN acc ELSE Append(acc, cur))

\* str.split(): the maximal runs of non-whitespace characters, in order.
RECURSIVE split_ws(_, _, _)
split_ws(s, cur, acc) ==
    IF s = <<>> THEN (IF cur = <<>> THEN acc ELSE Append(acc, cur))
    ELSE IF ~IsSpace(Head(s)) THEN split_ws(Tail(s), Append(cur, Head(s)), acc)
    ELSE split_ws(Tail(s), <<>>, IF cur = <<>> THEN acc ELSE Append(acc, cur))

Max(a, b) == IF a >= b THEN a ELSE b

Min(a, b) == IF a <= b THEN a ELSE b

(***************************************************************************)
(* Fixed word lists of the program.                                        *)
(***************************************************************************)
GREETINGS ==
    { <<"h","i">>,
      <<"h","e","l","l","o">>,
      <<"h","e","y">>,
      <<"h","i","i">>,
      <<"h","i","e">>,
      <<"y","o">>,
      <<"g","r","e","e","t","i","n","g","s">> }

CLOSINGS ==
    { <<"t","h","a","n","k","s">>,
      <<"t","h","a","n","k"," ","y","o","u">>,
      <<"b","y","e">>,
      <<"o","k","a","y">>,
      <<"o","k">>,
      <<"k">> }

START_WORDS ==
    { <<>>,
      <<"s","t","a","r","t">>,
      <<"g","e","t"," ","s","t","a","r","t","e","d">> }

unsupported_countries ==
    { <<"a","f","g","h","a","n","i","s","t","a","n">>,
      <<"a","l","b","a","n","i","a">>,
      <<"a","n","d","o","r","r","a">>,
      <<"a","n","g","o","l","a">>,
      <<"a","n","t","i","g","u","a">>,
      <<"a","u","s","t","r","i","a">>,
      <<"b","a","r","b","u","d","a">>,
      <<"b","a","h","a","m","a","s">>,
      <<"b","a","r","b","a","d","o","s">>,
      <<"b","e","l","g","i","u","m">>,
      <<"b","o","s","n","i","a"," ","a","n","d"," ","h","e","r","z","e","g","o","v","i","n","a">>,
      <<"b","r","u","n","e","i">>,
      <<"c","a","n","a","d","a">>,
      <<"c","a","p","e"," ","v","e","r","d","e">>,
      <<"c","h","a","d">>,
      <<"c","h","i","l","e">>,
      <<"c","o","l","o","m","b","i","a">>,
      <<"c","o","m","o","r","o","s">>,
      <<"c","o","s","t","a"," ","r","i","c","a">>,
      <<"c","z","e","c","h"," ","r","e","p","u","b","l","i","c">>,
      <<"d","e","n","m","a","r","k">>,
      <<"d","o","m","i","n","i","c","a","n"," ","r","e","p","u","b","l","i","c">>,
      <<"e","c","u","a","d","o","r">>,
      <<"e","l"," ","s","a","l","v","a","d","o","r">>,
      <<"e","q","u","a","t","o","r","i","a","l"," ","g","u","i","n","e","a">>,
      <<"e","r","i","t","r","e","a">>,
      <<"e","s","t","o","n","i","a">>,
      <<"e","t","h","i","o","p","i","a">>,
      <<"f","i","j","i">>,
      <<"f","i","n","l","a","n","d">>,
      <<"f","r","a","n","c","e">>,
      <<"g","e","r","m","a","n","y">>,
      <<"g","r","e","e","c","e">>,
      <<"g","u","a","t","e","m","a","l","a">>,
      <<"h","a","i","t","i">>,
      <<"h","o","n","d","u","r","a","s">>,
      <<"h","u","n","g","a","r","y">>,
      <<"i","c","e","l","a","n","d">>,
      <<"i","s","r","a","e","l">>,
      <<"i","t","a","l","y">>,
      <<"j","a","m","a","i","c","a">>,
      <<"k","o","r","e","a">>,
      <<"k","u","w","a","i","t">>,
      <<"l","i","b","y","a">>,
      <<"l","i","t","h","u","a","n","i","a">>,
      <<"l","u","x","e","n","b","e","r","g">>,
      <<"m","a","g","n","o","l","i","a">>,
      <<"n","e","t","h","e","r","l","a","n","d","s">>,
      <<"n","o","r","w","a","y">>,
      <<"p","a","r","a","g","u","a","y">>,
      <<"p","o","l","a","n","d">>,
      <<"p","o","r","t","u","g","a","l">>,
      <<"r","o","m","a","n","i","a">>,
      <<"s","o","u","t","h"," ","a","f","r","i","c","a">>,
      <<"s","p","a","i","n">>,
      <<"s","t"," ","k","i","t","t","s"," ","a","n","d"," ","n","e","v","i","s">>,
      <<"s","u","d","a","n">>,
      <<"s","w","e","d","e","n">>,
      <<"s","w","i","t","z","e","r","l","a","n","d">>,
      <<"s","y","r","i","a">>,
      <<"t","a","i","w","a","n">>,
      <<"u","r","u","g","u","a","y">>,
      <<"u","n","i","t","e","d"," ","a","r","a","b"," ","e","m","i","r","a","t","e","s">>,
      <<"v","e","n","e","z","u","e","l","a">> }

\* The alternatives of the regex of preprocess_input, in the order in which
\* the regex engine tries them (an optional group is tried present first):
\*   to|for|in|apply(ing)?\s(for)?|need(\svisa)?|i want|i need|from|visa to|
\*   visa for|information on|help with
\* each of them followed by \s+ .
FillerAlternatives ==
    << <<"t","o">>,
      <<"f","o","r">>,
      <<"i","n">>,
      <<"a","p","p","l","y","i","n","g"," ","f","o","r">>,
      <<"a","p","p","l","y","i","n","g"," ">>,
      <<"a","p","p","l","y"," ","f","o","r">>,
      <<"a","p","p","l","y"," ">>,
      <<"n","e","e","d"," ","v","i","s","a">>,
      <<"n","e","e","d">>,
      <<"i"," ","w","a","n","t">>,
      <<"i"," ","n","e","e","d">>,
      <<"f","r","o","m">>,
      <<"v","i","s","a"," ","t","o">>,
      <<"v","i","s","a"," ","f","o","r">>,
      <<"i","n","f","o","r","m","a","t","i","o","n"," ","o","n">>,
      <<"h","e","l","p"," ","w","i","t","h">> >>

s_passport == <<"p","a","s","s","p","o","r","t">>

s_visa == <<"v","i","s","a">>

\* None, and the absence of a dictionary key: a value no str is equal to.
None == <<"None">>

\* Python truthiness of an Optional[str].
Truthy(x) == x # None /\ x # <<>>

(***************************************************************************)
(* rapidfuzz: process.extractOne with its default scorer fuzz.WRatio.      *)
(* Scores are kept in hundredths of a point (0..10000).                    *)
(***************************************************************************)
\* One row of the longest-common-subsequence table: prev is the row of the
\* prefix before character c, the result the row after it.
RECURSIVE LcsRow(_, _, _, _, _)
LcsRow(prev, c, s2, acc, j) ==
    IF j > Len(s2) THEN acc
    ELSE LET cell == IF c = s2[j] THEN prev[j] + 1 ELSE Max(prev[j + 1], acc[j])
             next == Append(acc, cell)
         IN  IF Len(next) = j + 1 THEN LcsRow(prev, c, s2, next, j + 1) ELSE next

RECURSIVE LcsRows(_, _, _, _)
LcsRows(s1, s2, prev, i) ==
    IF i > Len(s1) THEN prev
    ELSE LET row == LcsRow(prev, s1[i], s2, <<0>>, 1)
         IN  IF Len(row) = Len(s2) + 1 THEN LcsRows(s1, s2, row, i + 1) ELSE row

Lcs(s1, s2) == LcsRows(s1, s2, [j \in 1..(Len(s2) + 1) |-> 0], 1)[Len(s2) + 1]

\* Indel distance: insertions and deletions turning s1 into s2.
IndelDistance(s1, s2) == Len(s1) + Len(s2) - 2 * Lcs(s1, s2)

\* 100 * (1 - dist / lensum), in hundredths.
NormSim(dist, lensum) ==
    IF lensum = 0 THEN 10000 ELSE 10000 - ((10000 * dist + lensum - 1) \div lensum)

\* fuzz.ratio
ratio(s1, s2) == NormSim(IndelDistance(s1, s2), Len(s1) + Len(s2))

\* The order of characters by code point: space, upper case, lower case.
CodePoint(c) ==
    IF IsSpace(c) THEN 0
    ELSE IF IsUpper(c) THEN CHOOSE i \in LetterIdx : UpperLetters[i] = c
    ELSE IF IsLower(c) THEN 100 + (CHOOSE i \in LetterIdx : LowerLetters[i] = c)
    ELSE 50

RECURSIVE StrLess(_, _)
StrLess(a, b) ==
    IF b = <<>> THEN FALSE
    ELSE IF a = <<>> THEN TRUE
    ELSE IF Head(a) = Head(b) THEN StrLess(Tail(a), Tail(b))
    ELSE CodePoint(Head(a)) < CodePoint(Head(b))

\* sorted(S) for a set of str
RECURSIVE sorted(_)
sorted(S) ==
    IF S = {} THEN <<>>
    ELSE LET m == CHOOSE x \in S : \A y \in S \ {x} : StrLess(x, y)
         IN <<m>> \o sorted(S \ {m})

RECURSIVE sorted_seq(_)
\* sorted(words) for a list of str (duplicates kept)
sorted_seq(words) ==
    IF words = <<>> THEN <<>>
    ELSE LET i == CHOOSE k \in 1..Len(words) :
                    \A l \in 1..Len(words) : ~StrLess(words[l], words[k])
         IN <<words[i]>> \o
            sorted_seq(SubSeq(words, 1, i - 1) \o SubSeq(words, i + 1, Len(words)))

SeqRange(q) == {q[i] : i \in 1..Len(q)}

\* fuzz.token_sort_ratio
token_sort_ratio(s1, s2) ==
    IF s1 = <<>> \/ s2 = <<>> THEN 0
    ELSE ratio(join(sorted_seq(split_ws(s1, <<>>, <<>>))),
               join(sorted_seq(split_ws(s2, <<>>, <<>>))))

\* fuzz.token_set_ratio
token_set_ratio(s1, s2) ==
    LET tokens_a == SeqRange(split_ws(s1, <<>>, <<>>))
        tokens_b == SeqRange(split_ws(s2, <<>>, <<>>))
        intersect == tokens_a \cap tokens_b
        diff_ab == tokens_a \ tokens_b
        diff_ba == tokens_b \ tokens_a
        diff_ab_joined == join(sorted(diff_ab))
        diff_ba_joined == join(sorted(diff_ba))
        ab_len == Len(diff_ab_joined)
        ba_len == Len(diff_ba_joined)
        sect_len == Len(join(sorted(intersect)))
        sep == IF sect_len # 0 THEN 1 ELSE 0
        sect_ab_len == sect_len + sep + ab_len
        sect_ba_len == sect_len + sep + ba_len
        result == NormSim(IndelDistance(diff_ab_joined, diff_ba_joined),
                          sect_ab_len + sect_ba_len)
        sect_ab_ratio == NormSim(sep + ab_len, sect_len + sect_ab_len)
        sect_ba_ratio == NormSim(sep + ba_len, sect_len + sect_ba_len)
    IN  IF tokens_a = {} \/ tokens_b = {} THEN 0
        ELSE IF intersect # {} /\ (diff_ab = {} \/ diff_ba = {}) THEN 10000
        ELSE IF sect_len = 0 THEN result
        ELSE Max(result, Max(sect_ab_ratio, sect_ba_ratio))

\* fuzz.partial_ratio: the best ratio of the shorter string against a window
\* of the longer one (windows of the shorter string's length, and the shorter
\* windows that overlap either end).
partial_ratio(a, b) ==
    LET needle == IF Len(a) <= Len(b) THEN a ELSE b
        hay == IF Len(a) <= Len(b) THEN b ELSE a
        m == Len(needle)
        n == Len(hay)
        scores == {ratio(needle, SubSeq(hay, Max(1, i - m + 1), Min(i, n))) :
                     i \in 1..(n + m - 1)}
    IN  IF m = 0 THEN (IF n = 0 THEN 10000 ELSE 0)
        ELSE CHOOSE x \in scores : \A y \in scores : y <= x

\* fuzz.WRatio.  The last component of the library's formula,
\* partial_token_ratio * 0.95 * PARTIAL_SCALE, is at most 85.5 and is left out.
WRatio(query, choice) ==
    LET l1 == Len(query)
        l2 == Len(choice)
        lmax == Max(l1, l2)
        lmin == Min(l1, l2)
        base == ratio(query, choice)
    IN  IF l1 = 0 \/ l2 = 0 THEN 0
        ELSE IF 2 * lmax < 3 * lmin
             THEN Max(base,
                      (95 * Max(token_sort_ratio(query, choice), token_set_ratio(query, choice))) \div 100)
        ELSE Max(base,
                 ((IF lmax <= 8 * lmin THEN 90 ELSE 60) * partial_ratio(query, choice)) \div 100)

(***************************************************************************)
(* The data files read at startup.  A file that exists is its rows as      *)
(* csv.DictReader yields them (a missing column reads as None); three data *)
(* directories are modelled: a well-formed one, one with duplicate rows,   *)
(* chained aliases and an alias that shadows a country, and an empty one   *)
(* (both files missing).                                                   *)
(***************************************************************************)
MissingFile == [exists |-> FALSE, rows |-> <<>>]

CsvFile(rows) == [exists |-> TRUE, rows |-> rows]

DataDirs ==
    << [country_links_csv |-> CsvFile(
        << [country |-> <<"J","a","p","a","n">>, visa_link |-> <<"/","j","p">>],
           [country |-> <<" ","g","e","r","m","a","n","y"," ">>, visa_link |-> <<"/","d","e">>],
           [country |-> <<"c","h","a","d">>, visa_link |-> <<"/","t","d">>],
           [country |-> <<"u","n","i","t","e","d"," ","k","i","n","g","d","o","m">>, visa_link |-> <<"/","u","k"," ">>],
           [country |-> <<>>, visa_link |-> <<"/","x","x">>],
           [country |-> <<"p","e","r","u">>, visa_link |-> None] >>),
        country_aliases_csv |-> CsvFile(
        << [alias |-> <<"u","k">>, country |-> <<"u","n","i","t","e","d"," ","k","i","n","g","d","o","m">>],
           [alias |-> <<"D","e","u","t","s","c","h","l","a","n","d">>, country |-> <<"g","e","r","m","a","n","y">>],
           [alias |-> <<"n","i","p","p","o","n">>, country |-> <<"j","a","p","a","n">>],
           [alias |-> <<"h","o","l","l","a","n","d">>, country |-> <<"n","e","t","h","e","r","l","a","n","d","s">>],
           [alias |-> <<>>, country |-> <<"j","a","p","a","n">>] >>)],
       [country_links_csv |-> CsvFile(
        << [country |-> <<"n","i","g","e","r">>, visa_link |-> <<"/","n","e">>],
           [country |-> <<"n","i","g","e","r">>, visa_link |-> <<" ">>],
           [country |-> <<"n","i","g","e","r","i","a">>, visa_link |-> <<"/","n","g">>],
           [country |-> <<"j","a","p","a","n">>, visa_link |-> <<"/","o","l","d">>],
           [country |-> <<"j","a","p","a","n">>, visa_link |-> <<"/","j","p">>],
           [country |-> <<"c","h","a","d">>, visa_link |-> <<"/","t","d">>] >>),
        country_aliases_csv |-> CsvFile(
        << [alias |-> <<"u","k">>, country |-> <<"b","r","i","t","a","i","n">>],
           [alias |-> <<"b","r","i","t","a","i","n">>, country |-> <<"u","n","i","t","e","d"," ","k","i","n","g","d","o","m">>],
           [alias |-> <<"n","i","g","e","r">>, country |-> <<"n","i","g","e","r","i","a">>],
           [alias |-> <<"h","o","l","l","a","n","d">>, country |-> <<"n","e","t","h","e","r","l","a","n","d","s">>],
           [alias |-> <<"n","e","t","h","e","r","l","a","n","d","s">>, country |-> <<"h","o","l","l","a","n","d">>],
           [alias |-> <<"u","k">>, country |-> <<"b","r","i","t","a","i","n">>] >>)],
       [country_links_csv |-> MissingFile,
        country_aliases_csv |-> MissingFile] >>

(***************************************************************************)
(* State.                                                                  *)
(***************************************************************************)
VARIABLES
    sessions,       \* the session store: session id -> doc_type
    country_links,  \* dict country -> link, as the sequence of its items
    alias_map,      \* dict alias -> country, as the sequence of its items
    closest,        \* MatchSteps tabulated on the phrases in use
    last,           \* the last /chat request and its response
    probe,          \* the last direct call of a helper and its result
    threads,        \* the requests in progress, one per worker thread
    client          \* the page's script: its session_id and last_corrected_country

vars == <<sessions, country_links, alias_map, closest, last, probe, threads, client>>

(***************************************************************************)
(* Dictionaries.                                                           *)
(***************************************************************************)
\* The keys of a dict kept as a sequence of <<key, value>> items.
Keys(d) == {d[i][1] : i \in 1..Len(d)}

\* d.get(k): None when the key is absent.
DictGet(d, k) ==
    IF k \in Keys(d) THEN d[CHOOSE i \in 1..Len(d) : d[i][1] = k][2] ELSE None

\* d[k] = v: a new key goes last, a known key keeps its place.
DictSet(d, k, v) ==
    IF k \in Keys(d)
    THEN [i \in 1..Len(d) |-> IF d[i][1] = k THEN <<k, v>> ELSE d[i]]
    ELSE Append(d, <<k, v>>)

(***************************************************************************)
(* Loading the registries.                                                 *)
(***************************************************************************)
\* The loader without the test of the stripped country and link.
RECURSIVE load_links_rows_unchecked(_, _)
load_links_rows_unchecked(rows, acc) ==
    IF rows = <<>> THEN acc
    ELSE LET c == Head(rows).country
             l == Head(rows).visa_link
         IN  IF ~Truthy(c) \/ ~Truthy(l) THEN load_links_rows_unchecked(Tail(rows), acc)
             ELSE load_links_rows_unchecked(Tail(rows),
                                            DictSet(acc, lower(strip(c)), strip(l)))

RECURSIVE load_links_rows(_, _)
load_links_rows(rows, acc) ==
    IF rows = <<>> THEN acc
    ELSE LET c == Head(rows).country
             l == Head(rows).visa_link
         IN  IF ~Truthy(c) \/ ~Truthy(l) THEN load_links_rows(Tail(rows), acc)
             ELSE IF lower(strip(c)) # <<>> /\ strip(l) # <<>>
                  THEN load_links_rows(Tail(rows),
                                       DictSet(acc, lower(strip(c)), strip(l)))
             ELSE load_links_rows(Tail(rows), acc)

\* country_links after load_country_links() on the given file.
load_country_links(file) ==
    IF file.exists THEN load_links_rows(file.rows, <<>>) ELSE <<>>

RECURSIVE load_alias_rows(_, _)
load_alias_rows(rows, acc) ==
    IF rows = <<>> THEN acc
    ELSE LET alias == Head(rows).alias
             country == Head(rows).country
             a == lower(strip(alias))
             c == lower(strip(country))
         IN  IF ~Truthy(alias) \/ ~Truthy(country) THEN load_alias_rows(Tail(rows), acc)
             ELSE IF a # <<>> /\ c # <<>>
                  THEN load_alias_rows(Tail(rows), DictSet(acc, a, c))
             ELSE load_alias_rows(Tail(rows), acc)

\* alias_map after load_country_aliases() on the given file.
load_country_aliases(file) ==
    IF file.exists THEN load_alias_rows(file.rows, <<>>) ELSE <<>>

(***************************************************************************)
(* Link lookup and the support gate.                                       *)
(***************************************************************************)
get_link(country, doc_type) ==
    IF doc_type = "visa" THEN DictGet(country_links, country) ELSE None

\* is_supported_country without the .lower(): the name is compared as printed.
is_supported_country_cased(country) ==
    title(country) \notin unsupported_countries

is_supported_country(country) == lower(country) \notin unsupported_countries

(***************************************************************************)
(* The phrase normaliser.                                                  *)
(***************************************************************************)
\* re.sub(r"^(...)\s+", "", input_country.strip(), flags=re.IGNORECASE).strip()
preprocess_input(input_country) ==
    LET s == strip(input_country)
        low == lower(s)
        matching == {k \in 1..Len(FillerAlternatives) :
                        /\ StartsWith(low, FillerAlternatives[k])
                        /\ Len(s) > Len(FillerAlternatives[k])
                        /\ IsSpace(s[Len(FillerAlternatives[k]) + 1])}
        first == CHOOSE k \in matching : \A k2 \in matching : k <= k2
    IN  IF matching = {} THEN s
        ELSE strip(lstrip(SubSeq(s, Len(FillerAlternatives[first]) + 1, Len(s))))

\* alias_map.get(k, k)
AliasOrSelf(k) == IF k \in Keys(alias_map) THEN DictGet(alias_map, k) ELSE k

normalize_country_alias(input_country) ==
    AliasOrSelf(preprocess_input(lower(strip(input_country))))

(***************************************************************************)
(* The country matcher.                                                    *)
(***************************************************************************)
score_cutoff == 88

\* process.extractOne(query, choices, score_cutoff=...): the choices whose
\* score is the highest and reaches the cutoff.  The first of them in the
\* order of `choices` is returned; the code builds `choices` with
\* list(set(...)), whose order is not fixed, so any of them may be returned.
\* The empty set stands for the result None.
\* extractOne called without score_cutoff: the best choice whatever its score.
extractOne_nocutoff(query, choices, cutoff) ==
    LET scored == {<<k, WRatio(query, k)>> : k \in choices}
    IN  {p[1] : p \in {q \in scored : \A r \in scored : r[2] <= q[2]}}

extractOne(query, choices, cutoff) ==
    LET scored == {<<k, WRatio(query, k)>> : k \in choices}
    IN  {p[1] : p \in {q \in scored : /\ q[2] >= 100 * cutoff
                                      /\ \A r \in scored : r[2] <= q[2]}}

\* tokens + [" ".join(tokens[i:i+n]) for i in range(len(tokens))
\*           for n in [2, 3] if i + n <= len(tokens)]
RECURSIVE ngrams(_, _)
ngrams(tokens, i) ==
    IF i > Len(tokens) THEN <<>>
    ELSE (IF i + 1 <= Len(tokens) THEN <<join(SubSeq(tokens, i, i + 1))>> ELSE <<>>)
         \o (IF i + 2 <= Len(tokens) THEN <<join(SubSeq(tokens, i, i + 2))>> ELSE <<>>)
         \o ngrams(tokens, i + 1)

\* The candidates with the bigrams and trigrams ahead of the single tokens.
Candidates_ngrams_first(normalized) ==
    LET tokens == findall_az(normalized, <<>>, <<>>) IN ngrams(tokens, 1) \o tokens

Candidates(normalized) ==
    LET tokens == findall_az(normalized, <<>>, <<>>) IN tokens \o ngrams(tokens, 1)

\* The runs of get_closest_country_name on an input: the step that answers
\* ("exact", "token", "fuzzy" or "none"), the normalized phrase, the key
\* extractOne returned (None outside the fuzzy step) and the country returned.
\* There is more than one run only when extractOne has a tie to break.
MatchRun(step, normalized, best_match, country) ==
    [step |-> step, normalized |-> normalized, best_match |-> best_match,
     country |-> country]

MatchSteps(input_country) ==
    LET cleaned_input == preprocess_input(lower(strip(input_country)))
        normalized == AliasOrSelf(cleaned_input)
        candidates == Candidates(normalized)
        hits == {k \in 1..Len(candidates) :
                    candidates[k] \in Keys(alias_map) \cup Keys(country_links)}
        hit == candidates[CHOOSE k \in hits : \A k2 \in hits : k <= k2]
        all_options == Keys(country_links) \cup Keys(alias_map)
        res == extractOne(normalized, all_options, score_cutoff)
    IN  IF normalized \in Keys(country_links)
        THEN {MatchRun("exact", normalized, None, normalized)}
        ELSE IF hits # {}
        THEN {MatchRun("token", normalized, None,
                       IF hit \in Keys(alias_map) THEN DictGet(alias_map, hit) ELSE hit)}
        ELSE IF res # {}
        THEN {MatchRun("fuzzy", normalized, best_match, AliasOrSelf(best_match)) :
                best_match \in res}
        ELSE {MatchRun("none", normalized, None, normalized)}

\* The values get_closest_country_name(input_country) may return.
get_closest_country_name(input_country) ==
    {run.country : run \in MatchSteps(input_country)}

\* was_corrected comparing the phrase before the alias lookup.
was_corrected_prealias(input_country, matched_country) ==
    preprocess_input(lower(strip(input_country))) # lower(strip(matched_country))

was_corrected(input_country, matched_country) ==
    normalize_country_alias(lower(strip(input_country))) # lower(strip(matched_country))

(***************************************************************************)
(* The intent hint source.                                                 *)
(*                                                                         *)
(* What comes back from the POST to the local model is a record:           *)
(*   transport  "ok", or "timeout" / "refused" (a RequestException)        *)
(*   raw        what raw_output is after the envelope and the code fence   *)
(*              are taken off: "empty", "notjson" (json.loads raises),     *)
(*              "array" (JSON that is no object) or "object"               *)
(*   intent     of an object: a str, Missing (no such key) or NonStr       *)
(*              (null or a number)                                         *)
(*   country    of an object: a str, None (null or no such key) or NonStr  *)
(***************************************************************************)
Missing == <<"Missing">>

NonStr == <<"NonStr">>

s_unknown == <<"u","n","k","n","o","w","n">>

INTENTS == {s_visa, s_passport, s_unknown}

UnknownIntent == [intent |-> s_unknown, country |-> None]

\* query_intent_and_country without lines 217-218: the intent is passed on as
\* the hint source gave it.
query_intent_and_country_unvalidated(prompt, resp) ==
    IF prompt = <<>> \/ lower(strip(prompt)) \in GREETINGS THEN UnknownIntent
    ELSE IF resp.transport # "ok" THEN UnknownIntent
    ELSE IF resp.raw \in {"empty", "notjson", "array"} THEN UnknownIntent
    ELSE IF resp.intent = NonStr THEN UnknownIntent
    ELSE [intent |-> lower(strip(IF resp.intent = Missing THEN s_unknown ELSE resp.intent)),
          country |-> IF resp.country # None /\ resp.country # NonStr
                      THEN normalize_country_alias(lower(strip(resp.country)))
                      ELSE None]

query_intent_and_country(prompt, resp) ==
    IF prompt = <<>> \/ lower(strip(prompt)) \in GREETINGS THEN UnknownIntent
    ELSE IF resp.transport # "ok" THEN UnknownIntent
    ELSE IF resp.raw = "empty" THEN UnknownIntent
    ELSE IF resp.raw = "notjson" THEN UnknownIntent
    \* result.get on a list, or .strip() on a value that is no str, raises
    \* AttributeError, which the outer `except Exception` turns into unknown.
    ELSE IF resp.raw = "array" THEN UnknownIntent
    ELSE IF resp.intent = NonStr THEN UnknownIntent
    ELSE LET given == IF resp.intent = Missing THEN s_unknown ELSE resp.intent
             intent == lower(strip(given))
         IN  [intent |-> IF intent \in INTENTS THEN intent ELSE s_unknown,
              country |-> IF resp.country # None /\ resp.country # NonStr
                          THEN normalize_country_alias(lower(strip(resp.country)))
                          ELSE None]

(***************************************************************************)
(* The session store.                                                      *)
(***************************************************************************)
MaxSessions == 2

\* The ids uuid4 can produce in the model.
SessionPool == 1..MaxSessions

\* uuid.uuid4(): an id the store does not hold.  Ids are interchangeable, so
\* the model takes the least one that is free; none is left once MaxSessions
\* sessions exist.
uuid4(store) ==
    {k \in SessionPool \ DOMAIN store : \A j \in SessionPool \ DOMAIN store : k <= j}

\* A request without session id (None or "").
NoId == 0

\* A request with an id the store does not know.
StaleId == -1

\* get_or_create_session: whether a new session is made for the given id.
IsNewSession(store, session_id) ==
    session_id = NoId \/ session_id \notin DOMAIN store

\* sessions = {session_id: {"doc_type": None}}: the store is rebuilt around the
\* new session.
CreateSession_alone(store, session_id) ==
    [k \in {session_id} |-> "none"]

\* sessions[session_id] = {"doc_type": None}
CreateSession(store, session_id) ==
    [k \in DOMAIN store \cup {session_id} |->
        IF k = session_id THEN "none" ELSE store[k]]

\* get_session(session_id).get("doc_type")
get_session(store, session_id) ==
    IF session_id \in DOMAIN store THEN store[session_id] ELSE "none"

\* update_doc_type writing the document type of every session of the store.
update_doc_type_everywhere(store, session_id, doc_type) ==
    [k \in DOMAIN store \cup {session_id} |-> doc_type]

update_doc_type(store, session_id, doc_type) ==
    [k \in DOMAIN store \cup {session_id} |->
        IF k = session_id THEN doc_type ELSE store[k]]

\* reset_session that fills in a missing session and leaves a present one.
reset_session_setdefault(store, session_id) ==
    [k \in DOMAIN store \cup {session_id} |->
        IF k \in DOMAIN store THEN store[k] ELSE "none"]

reset_session(store, session_id) ==
    [k \in DOMAIN store \cup {session_id} |->
        IF k = session_id THEN "none" ELSE store[k]]

(***************************************************************************)
(* chat_response.                                                          *)
(*                                                                         *)
(* An outcome is the reply together with the write the handler makes to    *)
(* the session: "keep" (none), "passport" / "visa" (update_doc_type) or    *)
(* "reset" (reset_session).  A reply is its kind, the rule that produced   *)
(* it, the country it names (as printed, country.title()), the link it     *)
(* holds and the document word it prints.                                  *)
(***************************************************************************)
Outcome(kind, rule, country, link, doc, write) ==
    [kind |-> kind, rule |-> rule, country |-> country, link |-> link,
     doc |-> doc, write |-> write]

\* MatchSteps and get_closest_country_name, read from the table when the
\* phrase is in it.
StepsOf(phrase) ==
    IF \E e \in closest : e[1] = phrase
    THEN (CHOOSE e \in closest : e[1] = phrase)[2]
    ELSE MatchSteps(phrase)

ClosestOf(phrase) == {run.country : run \in StepsOf(phrase)}

\* Rules 1 to 4 with rule 4 taking the last registry key found in the message
\* instead of the first.
FastPath_last_key(no_session_id, user_input) ==
    LET lower_input == strip(lower(user_input))
        found == {i \in 1..Len(country_links) :
                     Contains(country_links[i][1], lower_input)}
        country_key == country_links[CHOOSE i \in found : \A i2 \in found : i >= i2][1]
        link == get_link(country_key, "visa")
    IN  IF lower_input \in GREETINGS
        THEN {Outcome("greeting", "greeting", None, None, "-", "keep")}
        ELSE IF lower_input \in CLOSINGS
        THEN {Outcome("closing", "closing", None, None, "-", "keep")}
        ELSE IF no_session_id /\ lower_input \in START_WORDS
        THEN {Outcome("start", "start", None, None, "-", "keep")}
        ELSE IF Contains(s_passport, lower_input)
        THEN {Outcome("passport_options", "passport", None, None, "-", "passport")}
        ELSE IF Contains(s_visa, lower_input) /\ found # {}
        THEN IF ~is_supported_country(country_key)
             THEN {Outcome("unsupported", "fast_visa", title(country_key), None, "-", "reset")}
             ELSE IF ~Truthy(link)
             THEN {Outcome("no_link", "fast_visa", title(country_key), None, "visa", "reset")}
             ELSE {Outcome("link", "fast_visa", title(country_key), link, "visa", "reset")}
        ELSE {}

\* Rules 1 to 4 with the fast visa match (rule 4) tried before the passport
\* rule (rule 3).
FastPath_visa_first(no_session_id, user_input) ==
    LET lower_input == strip(lower(user_input))
        found == {i \in 1..Len(country_links) :
                     Contains(country_links[i][1], lower_input)}
        country_key == country_links[CHOOSE i \in found : \A i2 \in found : i <= i2][1]
        link == get_link(country_key, "visa")
    IN  IF lower_input \in GREETINGS
        THEN {Outcome("greeting", "greeting", None, None, "-", "keep")}
        ELSE IF lower_input \in CLOSINGS
        THEN {Outcome("closing", "closing", None, None, "-", "keep")}
        ELSE IF no_session_id /\ lower_input \in START_WORDS
        THEN {Outcome("start", "start", None, None, "-", "keep")}
        ELSE IF Contains(s_visa, lower_input) /\ found # {}
        THEN IF ~is_supported_country(country_key)
             THEN {Outcome("unsupported", "fast_visa", title(country_key), None, "-", "reset")}
             ELSE IF ~Truthy(link)
             THEN {Outcome("no_link", "fast_visa", title(country_key), None, "visa", "reset")}
             ELSE {Outcome("link", "fast_visa", title(country_key), link, "visa", "reset")}
        ELSE IF Contains(s_passport, lower_input)
        THEN {Outcome("passport_options", "passport", None, None, "-", "passport")}
        ELSE {}

\* Rules 1 to 4 (lines 789-839): the outcome, or {} when none of them fires.
FastPath(no_session_id, user_input) ==
    LET lower_input == strip(lower(user_input))
        found == {i \in 1..Len(country_links) :
                     Contains(country_links[i][1], lower_input)}
        country_key == country_links[CHOOSE i \in found : \A i2 \in found : i <= i2][1]
        link == get_link(country_key, "visa")
    IN  IF lower_input \in GREETINGS
        THEN {Outcome("greeting", "greeting", None, None, "-", "keep")}
        ELSE IF lower_input \in CLOSINGS
        THEN {Outcome("closing", "closing", None, None, "-", "keep")}
        ELSE IF no_session_id /\ lower_input \in START_WORDS
        THEN {Outcome("start", "start", None, None, "-", "keep")}
        ELSE IF Contains(s_passport, lower_input)
        THEN {Outcome("passport_options", "passport", None, None, "-", "passport")}
        ELSE IF Contains(s_visa, lower_input) /\ found # {}
        THEN IF ~is_supported_country(country_key)
             THEN {Outcome("unsupported", "fast_visa", title(country_key), None, "-", "reset")}
             ELSE IF ~Truthy(link)
             THEN {Outcome("no_link", "fast_visa", title(country_key), None, "visa", "reset")}
             ELSE {Outcome("link", "fast_visa", title(country_key), link, "visa", "reset")}
        ELSE {}

\* The reply for a resolved country with the support gate asked before
\* was_corrected.
Resolve_gate_first(rule, phrase, country, doc_type) ==
    LET link == get_link(country, doc_type)
    IN  IF ~is_supported_country(country)
        THEN Outcome("unsupported", rule, title(country), None, "-", "reset")
        ELSE IF was_corrected(phrase, country)
        THEN Outcome("confirm", rule, title(country), None, "-", "visa")
        ELSE IF Truthy(link)
        THEN Outcome("link", rule, title(country), link, doc_type, "reset")
        ELSE Outcome("no_link", rule, title(country), None, doc_type, "reset")

\* Lines 853-875 and 903-931: the reply for a resolved country.
Resolve(rule, phrase, country, doc_type) ==
    LET link == get_link(country, doc_type)
    IN  IF was_corrected(phrase, country)
        THEN Outcome("confirm", rule, title(country), None, "-", "visa")
        ELSE IF ~is_supported_country(country)
        THEN Outcome("unsupported", rule, title(country), None, "-", "reset")
        ELSE IF Truthy(link)
        THEN Outcome("link", rule, title(country), link, doc_type, "reset")
        ELSE Outcome("no_link", rule, title(country), None, doc_type, "reset")

\* Rules 5 to 7 with rule 6 asking for the country whenever the intent is not
\* passport.
AfterHint_visa_default(doc_type, user_input, result) ==
    LET country_raw == normalize_country_alias(result.country)
        user_country_input == normalize_country_alias(lower(strip(user_input)))
    IN  IF result.intent = s_visa /\ Truthy(result.country)
        THEN {Resolve("hint", country_raw, country, "visa") :
                country \in IF country_raw \in Keys(country_links) THEN {country_raw}
                            ELSE ClosestOf(country_raw)}
        ELSE IF doc_type = "none"
        THEN IF result.intent = s_passport
             THEN {Outcome("passport_options", "hint", None, None, "-", "passport")}
             ELSE {Outcome("ask_country", "hint", None, None, "-", "visa")}
        ELSE {Resolve("fallback", user_input, country, doc_type) :
                country \in IF user_country_input \in Keys(country_links)
                            THEN {user_country_input}
                            ELSE ClosestOf(user_input)}

\* Lines 841-931: the outcomes once the hint source has answered `result`.
AfterHint(doc_type, user_input, result) ==
    LET country_raw == normalize_country_alias(result.country)
        user_country_input == normalize_country_alias(lower(strip(user_input)))
    IN  IF result.intent = s_visa /\ Truthy(result.country)
        THEN {Resolve("hint", country_raw, country, "visa") :
                country \in IF country_raw \in Keys(country_links) THEN {country_raw}
                            ELSE ClosestOf(country_raw)}
        ELSE IF doc_type = "none"
        THEN IF result.intent = s_passport
             THEN {Outcome("passport_options", "hint", None, None, "-", "passport")}
             ELSE IF result.intent = s_visa
             THEN {Outcome("ask_country", "hint", None, None, "-", "visa")}
             ELSE {Outcome("ask_topic", "hint", None, None, "-", "keep")}
        ELSE {Resolve("fallback", user_input, country, doc_type) :
                country \in IF user_country_input \in Keys(country_links)
                            THEN {user_country_input}
                            ELSE ClosestOf(user_input)}

\* The outcomes of one request, given the document type of its session.
Outcomes(no_session_id, doc_type, message, resp) ==
    LET user_input == strip(message)
        fast == FastPath(no_session_id, user_input)
    IN  IF fast # {} THEN fast
        ELSE AfterHint(doc_type, user_input, query_intent_and_country(user_input, resp))

\* The write of an outcome, with a reset on every return that writes nothing.
ApplyWrite_reset_on_return(store, session_id, write) ==
    IF write \in {"keep", "reset"} THEN reset_session(store, session_id)
    ELSE update_doc_type(store, session_id, write)

\* The write of an outcome, applied to the store.
ApplyWrite(store, session_id, write) ==
    IF write = "keep" THEN store
    ELSE IF write = "reset" THEN reset_session(store, session_id)
    ELSE update_doc_type(store, session_id, write)

(***************************************************************************)
(* The requests and hint-source answers of the model.                      *)
(***************************************************************************)
\* The messages a client sends.
Messages ==
    { <<" ","H","e","l","l","o"," ">>,
      <<"t","h","a","n","k","s">>,
      <<"s","t","a","r","t">>,
      <<"m","y"," ","P","a","s","s","p","o","r","t">>,
      <<"v","i","s","a"," ","a","n","d"," ","P","a","s","s","p","o","r","t"," ","f","o","r"," ","j","a","p","a","n">>,
      <<"v","i","s","a">>,
      <<"v","i","s","a"," ","f","o","r"," ","c","h","a","d">>,
      <<"i"," ","n","e","e","d"," ","v","i","s","a"," ","f","o","r"," ","u","k">>,
      <<"j","e","r","m","a","n","y">>,
      <<"g","e","r","m","a","n","y","y">>,
      <<"c","h","a","d","d">>,
      <<"j","a","p","a","n">>,
      <<"u","k">>,
      <<"p","e","r","u">>,
      <<"v","i","s","a"," ","f","o","r"," ","n","i","g","e","r","i","a">>,
      <<"w","h","e","r","e"," ","d","o"," ","I"," ","a","p","p","l","y"," ","f","o","r"," ","a"," ","v","i","s","a">> }

\* Answers of the hint source that are failures: no connection, nothing
\* usable in the body, or an intent that is none of the three.
FailedResponses ==
    { [transport |-> "timeout", raw |-> "-", intent |-> Missing, country |-> None],
      [transport |-> "refused", raw |-> "-", intent |-> Missing, country |-> None],
      [transport |-> "ok", raw |-> "empty", intent |-> Missing, country |-> None],
      [transport |-> "ok", raw |-> "notjson", intent |-> Missing, country |-> None],
      [transport |-> "ok", raw |-> "array", intent |-> Missing, country |-> None],
      [transport |-> "ok", raw |-> "object", intent |-> NonStr, country |-> <<"j","a","p","a","n">>],
      [transport |-> "ok", raw |-> "object", intent |-> <<"t","o","u","r","i","s","m">>, country |-> <<"j","a","p","a","n">>],
      [transport |-> "ok", raw |-> "object", intent |-> Missing, country |-> <<"j","a","p","a","n">>] }

\* Answers that carry a usable classification.
GoodResponses ==
    { [transport |-> "ok", raw |-> "object", intent |-> <<" ","V","i","s","a">>, country |-> <<"U","K"," ">>],
      [transport |-> "ok", raw |-> "object", intent |-> <<"v","i","s","a">>, country |-> <<"j","e","r","m","a","n","y">>],
      [transport |-> "ok", raw |-> "object", intent |-> <<"v","i","s","a">>, country |-> <<"c","h","a","d">>],
      [transport |-> "ok", raw |-> "object", intent |-> <<"v","i","s","a">>, country |-> None],
      [transport |-> "ok", raw |-> "object", intent |-> <<"p","a","s","s","p","o","r","t">>, country |-> None],
      [transport |-> "ok", raw |-> "object", intent |-> <<"u","n","k","n","o","w","n">>, country |-> NonStr] }

HintResponses == FailedResponses \cup GoodResponses

\* The hint source is not asked: a fast-path rule answered.
NoResponse == [transport |-> "-", raw |-> "-", intent |-> Missing, country |-> None]

NotConsulted == [intent |-> None, country |-> None]

\* The phrases the helpers are called on directly.
Phrases ==
    { <<"j","a","p","a","n">>,
      <<"J","a","p","a","n"," ">>,
      <<"u","k">>,
      <<"n","i","g","e","r">>,
      <<"b","r","i","t","a","i","n">>,
      <<"h","o","l","l","a","n","d">>,
      <<"n","i","p","p","o","n">>,
      <<"c","h","a","d">>,
      <<"p","e","r","u">>,
      <<"j","e","r","m","a","n","y">>,
      <<"g","e","r","m","a","n","y","y">>,
      <<"n","i","g","e","r","i">>,
      <<"t","o"," ","j","a","p","a","n">>,
      <<"t","o"," ","t","o"," ","j","a","p","a","n">>,
      <<"v","i","s","a"," ","f","o","r"," ","u","k">>,
      <<"i"," ","n","e","e","d"," ","v","i","s","a"," ","f","o","r"," ","u","k">>,
      <<"k","i","n","g","d","o","m"," ","u","n","i","t","e","d">>,
      <<"v","i","s","i","t"," ","u","n","i","t","e","d"," ","k","i","n","g","d","o","m"," ","j","a","p","a","n">>,
      <<"g","o"," ","n","i","g","e","r">>,
      <<>>,
      <<"t","o">> }

\* The phrases get_closest_country_name is tabulated on: every message, every
\* country the hint source names, as chat_response passes them, and every
\* phrase a helper is called on.
CachePhrases ==
    {strip(m) : m \in Messages} \cup Phrases \cup
    {normalize_country_alias(query_intent_and_country(<<"x">>, r).country) :
        r \in {g \in GoodResponses : g.country # None /\ g.country # NonStr}}

(***************************************************************************)
(* Initial states: the process has started and startup_event has loaded    *)
(* one of the data directories; no request has been served.                *)
(***************************************************************************)
NoTurn ==
    [session_id_in |-> NoId, message |-> <<>>, resp |-> NoResponse,
     doc_before |-> "none", new_session |-> FALSE, result |-> NotConsulted,
     session_id |-> NoId, reply |-> Outcome("none", "none", None, None, "-", "keep")]

NoProbe == [fn |-> "none", arg |-> <<>>, resp |-> NoResponse, out |-> <<>>]

\* The worker threads that serve /chat: chat_response is a plain `def`, which
\* FastAPI runs in a thread pool, one request per thread.
MaxWorkers == 2

Workers == 1..MaxWorkers

\* A thread with no request.  A thread that serves one is at the POST of
\* query_intent_and_country (pc = "hint") and holds: the session id, whether
\* get_or_create_session made the session, the message, `session` (the dict get_session returned at line 784: `live` while
\* it is still the dict the store holds for the id, else `frozen`, its
\* doc_type when reset_session replaced it) and the doc_type it had at line 784.
\* The page as loaded: no session id in localStorage, no proposal kept.
NoClient == [session_id |-> NoId, last_corrected_country |-> None]

IdleThread ==
    [pc |-> "idle", session_id |-> NoId, new_session |-> FALSE, message |-> <<>>,
     live |-> TRUE, frozen |-> "none", doc_at_start |-> "none"]

Loaded(dir) ==
    /\ country_links = load_country_links(dir.country_links_csv)
    /\ alias_map = load_country_aliases(dir.country_aliases_csv)

Init ==
    /\ \E d \in 1..Len(DataDirs) : Loaded(DataDirs[d])
    /\ closest = {<<ph, MatchSteps(ph)>> : ph \in CachePhrases}
    /\ sessions = <<>>
    /\ last = NoTurn
    /\ probe = NoProbe
    /\ threads = [t \in Workers |-> IdleThread]
    /\ client = NoClient

(***************************************************************************)
(* POST /chat.                                                             *)
(***************************************************************************)
\* get_or_create_session: the id the request is served under and the store
\* after the call; uuid is the value uuid4 returns when a session is made.
get_or_create_session(store, session_id, uuid) ==
    IF IsNewSession(store, session_id)
    THEN [session_id |-> uuid, store |-> CreateSession(store, uuid)]
    ELSE [session_id |-> session_id, store |-> store]

\* Whether the request gets as far as the POST to the hint source.
AsksHintSource(session_id_in, message) ==
    /\ FastPath(session_id_in = NoId, strip(message)) = {}
    /\ strip(message) # <<>>

chat_response(session_id_in, message, resp) ==
    \E uuid \in IF IsNewSession(sessions, session_id_in)
             THEN uuid4(sessions) ELSE {session_id_in} :
    LET got == get_or_create_session(sessions, session_id_in, uuid)
         doc_type == get_session(got.store, got.session_id)
         user_input == strip(message)
         asked == FastPath(session_id_in = NoId, user_input) = {}
     IN  \E out \in Outcomes(session_id_in = NoId, doc_type, message, resp) :
             /\ sessions' = ApplyWrite(got.store, got.session_id, out.write)
             /\ last' = [session_id_in |-> session_id_in,
                         message |-> message,
                         resp |-> resp,
                         doc_before |-> doc_type,
                         new_session |-> IsNewSession(sessions, session_id_in),
                         result |-> IF asked
                                    THEN query_intent_and_country(user_input, resp)
                                    ELSE NotConsulted,
                         session_id |-> got.session_id,
                         reply |-> out]
             /\ UNCHANGED <<country_links, alias_map, closest, probe, threads>>

\* One request at a time: the next one is taken up when the response to the
\* last one has been sent.
Chat ==
    /\ last = NoTurn
    /\ \E session_id_in \in DOMAIN sessions \cup {NoId, StaleId}, message \in Messages :
        \E resp \in IF AsksHintSource(session_id_in, message)
                    THEN HintResponses ELSE {NoResponse} :
            chat_response(session_id_in, message, resp)
    /\ UNCHANGED client

\* The response has been sent: the server keeps the session store only.
Return ==
    /\ last # NoTurn
    /\ last' = NoTurn
    /\ UNCHANGED <<sessions, country_links, alias_map, closest, probe, threads, client>>

Next == Chat \/ Return

Spec == Init /\ [][Next]_vars

(***************************************************************************)
(* Direct calls of the helpers, one at a time, on the loaded registries.   *)
(***************************************************************************)
Probe(fn, arg, resp, out) == [fn |-> fn, arg |-> arg, resp |-> resp, out |-> out]

\* normalize_country_alias(x)
CallNormalize ==
    /\ probe = NoProbe
    /\ \E x \in Phrases :
        probe' = Probe("normalize", x, NoResponse, normalize_country_alias(x))
    /\ UNCHANGED <<sessions, country_links, alias_map, closest, last, threads, client>>

\* get_closest_country_name(x)
CallClosest ==
    /\ probe = NoProbe
    /\ \E x \in Phrases :
        \E run \in StepsOf(x) : probe' = Probe("closest", x, NoResponse, run)
    /\ UNCHANGED <<sessions, country_links, alias_map, closest, last, threads, client>>

\* The resolution of a phrase as chat_response derives it: the normalized
\* input, get_closest_country_name, was_corrected, the support gate and the
\* visa link.
CallResolve ==
    /\ probe = NoProbe
    /\ \E x \in Phrases :
        \E country \in ClosestOf(x) :
            probe' = Probe("resolve", x, NoResponse,
                        [normalized_input |-> normalize_country_alias(x),
                         matched_country |-> country,
                         was_corrected |-> was_corrected(x, country),
                         supported |-> is_supported_country(country),
                         link |-> get_link(country, "visa")])
    /\ UNCHANGED <<sessions, country_links, alias_map, closest, last, threads, client>>

\* query_intent_and_country(prompt) when the hint source answers resp
CallHint ==
    /\ probe = NoProbe
    /\ \E prompt \in {<<"x">>, <<>>, <<"y", "o">>}, resp \in HintResponses :
        probe' = Probe("hint", prompt, resp, query_intent_and_country(prompt, resp))
    /\ UNCHANGED <<sessions, country_links, alias_map, closest, last, threads, client>>

CallDone ==
    /\ probe # NoProbe
    /\ probe' = NoProbe
    /\ UNCHANGED <<sessions, country_links, alias_map, closest, last, threads, client>>

HelperNext == CallNormalize \/ CallClosest \/ CallResolve \/ CallHint \/ CallDone

SpecHelpers == Init /\ [][HelperNext]_vars

(***************************************************************************)
(* Properties of a turn (specification Spec).  `last` is the turn that has *)
(* just been answered; `sessions` is the store the turn left.              *)
(***************************************************************************)
Answered == last # NoTurn

\* The hint source was asked in the last turn.
Asked == Answered /\ last.result # NotConsulted

\* The hint source was asked and failed.
HintFailed == Asked /\ last.resp \in FailedResponses

TerminalKinds == {"link", "unsupported", "no_link"}

\* C1: after a turn whose reply is the fixed passport options reply, the
\* session's document type is none again at the end of the turn.
C1_PassportReplyResets ==
    (Answered /\ last.reply.kind = "passport_options")
        => sessions[last.session_id] = "none"

\* C2: every turn that ends in a visa terminal reply (link, unsupported
\* apology, no-link apology), by rule 4, the hint branch or the fallback,
\* leaves the session's document type none, whatever it was before.
C2_TerminalReplyResets ==
    (Answered /\ last.reply.kind \in TerminalKinds)
        => sessions[last.session_id] = "none"

\* A fallback turn of a session that was awaiting a country ends in the
\* unsupported apology and the session is back to none.
C2_Witness ==
    /\ Answered
    /\ last.reply.kind = "unsupported"
    /\ last.reply.rule = "fallback"
    /\ last.doc_before = "visa"
    /\ sessions[last.session_id] = "none"

\* C3 as stated: for every failure of the hint source the classification of
\* the turn is exactly intent unknown, country none.
C3_FailureIsUnknownNone ==
    HintFailed => last.result = UnknownIntent

\* C3 amended: for every failure of the hint source the intent is unknown; the
\* country is none unless the body is a JSON object whose intent is a string
\* or is missing and whose country is a string, in which case the normalized
\* country is kept; the reply is the one an unknown intent without country
\* gets, and it carries the id of a stored session.
C3_FailureDegrades ==
    HintFailed =>
        /\ last.result.intent = s_unknown
        /\ \/ last.result.country = None
           \/ /\ last.resp.transport = "ok" /\ last.resp.raw = "object"
              /\ last.resp.intent # NonStr
              /\ last.resp.country \notin {None, NonStr}
        /\ ( \/ last.resp.transport # "ok"
             \/ last.resp.raw # "object"
             \/ last.resp.intent = NonStr ) => last.result = UnknownIntent
        /\ last.reply \in AfterHint(last.doc_before, strip(last.message), UnknownIntent)
        /\ last.reply.kind # "none"
        /\ last.session_id \in DOMAIN sessions

\* The hint source names an intent that is none of the three, with a country:
\* the turn goes on with intent unknown and asks for the topic.
C3_Witness ==
    /\ HintFailed
    /\ last.resp.intent = <<"t","o","u","r","i","s","m">>
    /\ last.result.intent = s_unknown
    /\ last.result.country = <<"j","a","p","a","n">>
    /\ last.reply.kind = "ask_topic"

\* C4: with the hint source absent, a session without document type that
\* gets the message "visa" (no registry key in it) is moved to awaiting a
\* country: its document type is visa after the turn.
C4_VisaAnswerAdvances ==
    ( /\ HintFailed
      /\ last.doc_before = "none"
      /\ lower(strip(last.message)) = s_visa )
        => sessions[last.session_id] = "visa"

\* C9: in every branch that gives a terminal visa reply, a country of the
\* unsupported set gets the "do not process" apology, never a link and never
\* the no-link apology, whether or not the registry has a link for it (and a
\* country outside the set never gets that apology).
C9_UnsupportedBeforeLink ==
    (Answered /\ last.reply.kind \in TerminalKinds)
        => (last.reply.kind = "unsupported"
                <=> lower(last.reply.country) \in unsupported_countries)

\* An unsupported country the registry has a link for is refused.
C9_Witness ==
    /\ Answered
    /\ last.reply.kind = "unsupported"
    /\ lower(last.reply.country) \in Keys(country_links)
    /\ Truthy(DictGet(country_links, lower(last.reply.country)))

\* C10: every turn returns a session id that is a key of the store after the
\* turn; a supplied id the store knows is echoed; an absent or unknown id is
\* replaced by a new id that was not in the store, whose session starts
\* without document type; no session of the store is removed, and none but
\* the one the turn addresses is changed.
C10_SessionIds ==
    [][ (last = NoTurn /\ last' # NoTurn) =>
          /\ last'.session_id \in DOMAIN sessions'
          /\ last'.session_id_in \in DOMAIN sessions
                => last'.session_id = last'.session_id_in
          /\ last'.session_id_in \notin DOMAIN sessions
                => /\ last'.session_id \notin DOMAIN sessions
                   /\ last'.session_id # last'.session_id_in
                   /\ last'.doc_before = "none"
          /\ \A k \in DOMAIN sessions :
                /\ k \in DOMAIN sessions'
                /\ k # last'.session_id => sessions'[k] = sessions[k] ]_vars

\* A request with an unknown id is given a new session while another
\* session, awaiting a country, stays as it was.
C10_Witness ==
    /\ Answered
    /\ last.session_id_in = StaleId
    /\ last.new_session
    /\ last.session_id \in DOMAIN sessions
    /\ \E k \in DOMAIN sessions : k # last.session_id /\ sessions[k] = "visa"

(***************************************************************************)
(* Properties of the helpers (specification SpecHelpers).  `probe` is the  *)
(* call that has just returned.                                            *)
(***************************************************************************)
\* A phrase that starts with one of the filler phrases and white space.
HasLeadingFiller(phrase) ==
    \E k \in 1..Len(FillerAlternatives) :
        StartsWith(phrase, FillerAlternatives[k] \o <<" ">>)

\* C5: normalization is idempotent: normalize(normalize(x)) = normalize(x)
\* for every input and every alias table.
C5_NormalizeIdempotent ==
    probe.fn = "normalize"
        => normalize_country_alias(probe.out) = probe.out

\* C6: resolving the exact name of a supported registry key c returns c with
\* link(c) and was_corrected false, for every alias table.
C6_ExactNameResolves ==
    ( /\ probe.fn = "resolve"
      /\ probe.arg \in Keys(country_links)
      /\ lower(probe.arg) \notin unsupported_countries )
        => /\ probe.out.matched_country = probe.arg
           /\ probe.out.link = DictGet(country_links, probe.arg)
           /\ ~probe.out.was_corrected

\* C7 as stated: for every alias entry a -> c, resolving a returns c, and
\* was_corrected is true iff the phrase before the alias lookup differs
\* from c.
C7_AliasResolves ==
    (probe.fn = "resolve" /\ probe.arg \in Keys(alias_map))
        => /\ probe.out.matched_country = DictGet(alias_map, probe.arg)
           /\ probe.out.was_corrected
                <=> preprocess_input(lower(strip(probe.arg))) # DictGet(alias_map, probe.arg)

\* C7 amended: for every alias entry a -> c (a without leading filler
\* phrase), resolving a returns c when c is a registry key, and was_corrected
\* is true iff the country returned differs from c: it is false whenever c is
\* returned, though a differs from c.
C7_AliasResolvesToKey ==
    ( /\ probe.fn = "resolve"
      /\ probe.arg \in Keys(alias_map)
      /\ ~HasLeadingFiller(probe.arg) )
        => /\ DictGet(alias_map, probe.arg) \in Keys(country_links)
                => probe.out.matched_country = DictGet(alias_map, probe.arg)
           /\ probe.out.was_corrected
                <=> probe.out.matched_country # DictGet(alias_map, probe.arg)

\* An alias that differs from its canonical name resolves to it without
\* counting as a correction.
C7_Witness ==
    /\ probe.fn = "resolve"
    /\ probe.arg \in Keys(alias_map)
    /\ probe.arg # DictGet(alias_map, probe.arg)
    /\ probe.out.matched_country = DictGet(alias_map, probe.arg)
    /\ ~probe.out.was_corrected

\* C8: the fuzzy step never returns a candidate scoring below 88 against the
\* normalized phrase: a key it accepts scores at least 88 and the value
\* returned is that key alias-resolved; when there is no exact match, no
\* token or n-gram hit and no key scoring 88, the normalized phrase is
\* returned unchanged.
C8_FuzzyCutoff ==
    probe.fn = "closest" =>
        LET run == probe.out
            normalized == normalize_country_alias(probe.arg)
            all_options == Keys(country_links) \cup Keys(alias_map)
            token_hit == \E k \in 1..Len(Candidates(normalized)) :
                            Candidates(normalized)[k] \in all_options
            passing == {k \in all_options : WRatio(normalized, k) >= 8800}
        IN  /\ run.step = "fuzzy"
                => /\ run.best_match \in passing
                   /\ run.country = AliasOrSelf(run.best_match)
            /\ (normalized \notin Keys(country_links) /\ ~token_hit /\ passing = {})
                => run.country = normalized
            /\ (normalized \notin Keys(country_links) /\ ~token_hit /\ passing # {})
                => run.step = "fuzzy"

\* A misspelling is accepted by the fuzzy step.
C8_Witness ==
    /\ probe.fn = "closest"
    /\ probe.out.step = "fuzzy"
    /\ probe.out.country # normalize_country_alias(probe.arg)

(***************************************************************************)
(* Further properties of a turn (specification Spec).                      *)
(***************************************************************************)
\* The country phrase the last turn resolved: the hint source's country in
\* the hint branch, the whole message in the fallback.
ResolvedPhrase ==
    IF last.reply.rule = "hint" THEN last.result.country ELSE strip(last.message)

\* The last turn resolved a country phrase, by the hint branch or the
\* fallback.
ResolvedCountry ==
    /\ Answered
    /\ last.reply.rule \in {"hint", "fallback"}
    /\ last.reply.kind \in TerminalKinds \cup {"confirm"}

\* C11 as stated, its example: with "germany" in the registry and no alias
\* for "jermany", the message "jermany" sent while a country is awaited is
\* matched to "germany" by the fuzzy step and answered "Did you mean
\* **Germany**?", the session still awaiting a country.
C11_JermanyIsCorrected ==
    ( /\ Answered
      /\ last.reply.rule = "fallback"
      /\ last.doc_before = "visa"
      /\ strip(last.message) = <<"j","e","r","m","a","n","y">>
      /\ <<"g","e","r","m","a","n","y">> \in Keys(country_links)
      /\ <<"j","e","r","m","a","n","y">> \notin Keys(alias_map) )
        => /\ last.reply.kind = "confirm"
           /\ last.reply.country = <<"G","e","r","m","a","n","y">>
           /\ sessions[last.session_id] = "visa"

\* C11 amended: when a country phrase (the hint source's, with intent visa, or
\* the whole message while the document type is visa) resolves to a country
\* that differs from its normalized form (as "germanyy" resolves to
\* "germany"), the turn asks "Did you mean" and ends with document type visa;
\* the support gate and the link are not consulted, so an unsupported country
\* is asked about too and the session is not reset.
C11_CorrectionAsksFirst ==
    ( /\ ResolvedCountry
      /\ last.reply.rule = "fallback" => last.doc_before = "visa"
      /\ lower(last.reply.country) # normalize_country_alias(ResolvedPhrase) )
        => /\ last.reply.kind = "confirm"
           /\ last.reply.link = None
           /\ sessions[last.session_id] = "visa"

\* A misspelling of an unsupported country, sent while a country is awaited,
\* is asked about and the session keeps waiting.
C11_Witness ==
    /\ ResolvedCountry
    /\ last.reply.rule = "fallback"
    /\ last.doc_before = "visa"
    /\ strip(last.message) = <<"c","h","a","d","d">>
    /\ lower(last.reply.country) \in unsupported_countries
    /\ last.reply.kind = "confirm"
    /\ sessions[last.session_id] = "visa"

\* C12: with the alias uk -> united kingdom and "united kingdom" a supported
\* key of the registry, the message "i need visa for uk" on a fresh session
\* is answered with the stored link of united kingdom and no confirmation,
\* also when the hint source is unavailable.
C12_AliasScenario ==
    ( /\ Answered
      /\ last.new_session
      /\ strip(last.message) = <<"i"," ","n","e","e","d"," ","v","i","s","a"," ","f","o","r"," ","u","k">>
      /\ DictGet(alias_map, <<"u","k">>) = <<"u","n","i","t","e","d"," ","k","i","n","g","d","o","m">>
      /\ <<"u","n","i","t","e","d"," ","k","i","n","g","d","o","m">> \in Keys(country_links)
      /\ <<"u","n","i","t","e","d"," ","k","i","n","g","d","o","m">> \notin unsupported_countries )
        => /\ last.reply.kind = "link"
           /\ last.reply.country = <<"U","n","i","t","e","d"," ","K","i","n","g","d","o","m">>
           /\ last.reply.link = DictGet(country_links, <<"u","n","i","t","e","d"," ","k","i","n","g","d","o","m">>)

\* C13: the message "visa for chad" is answered with the apology naming Chad
\* and leaves the document type none, from any session state, whether or not
\* chad is a registry key and whether or not the hint source is available.
C13_ChadScenario ==
    (Answered /\ strip(last.message) = <<"v","i","s","a"," ","f","o","r"," ","c","h","a","d">>)
        => /\ last.reply.kind = "unsupported"
           /\ last.reply.country = <<"C","h","a","d">>
           /\ sessions[last.session_id] = "none"

\* The hint source was asked and failed, or answered with intent unknown.
HintUnknown ==
    /\ Asked
    /\ \/ last.resp \in FailedResponses
       \/ /\ last.resp.transport = "ok" /\ last.resp.raw = "object"
          /\ last.resp.intent \notin {Missing, NonStr}
          /\ lower(strip(last.resp.intent)) = s_unknown

\* C14: when the hint source fails or returns unknown, the session has no
\* document type and no fast-path rule fires, the turn asks "visa or
\* passport?" and the document type stays none.
C14_UnknownAsksTopic ==
    (HintUnknown /\ last.doc_before = "none")
        => /\ last.reply.kind = "ask_topic"
           /\ sessions[last.session_id] = "none"

\* The hint source times out on "where do I apply for a visa", sent to a
\* session without document type.
C14_Witness ==
    /\ HintUnknown
    /\ last.resp.transport = "timeout"
    /\ last.doc_before = "none"
    /\ strip(last.message) = <<"w","h","e","r","e"," ","d","o"," ","I"," ","a","p","p","l","y"," ","f","o","r"," ","a"," ","v","i","s","a">>
    /\ last.reply.kind = "ask_topic"
    /\ sessions[last.session_id] = "none"

\* C16: a message that contains "passport" gets the fixed passport options
\* reply in every session state, whatever else it contains ("visa" and a
\* registry key too); the hint source is not consulted and the turn gives no
\* visa reply and no confirmation prompt.
C16_PassportFirst ==
    (Answered /\ Contains(s_passport, lower(strip(last.message))))
        => /\ last.reply.kind = "passport_options"
           /\ last.reply.rule = "passport"
           /\ last.resp = NoResponse
           /\ last.result = NotConsulted

\* A message with "passport", "visa" and a registry key, sent to a session
\* that awaits a country, gets the passport options.
C16_Witness ==
    /\ Answered
    /\ last.doc_before = "visa"
    /\ Contains(s_passport, lower(strip(last.message)))
    /\ Contains(s_visa, lower(strip(last.message)))
    /\ \E k \in Keys(country_links) : Contains(k, lower(strip(last.message)))
    /\ last.reply.kind = "passport_options"

\* C17: whenever no fast-path rule fires and the hint source returns intent
\* passport, the turn returns the fixed passport options reply, whatever the
\* document type of the session at the start of the turn.
C17_HintPassport ==
    ( /\ Asked
      /\ last.resp.transport = "ok" /\ last.resp.raw = "object"
      /\ last.resp.intent \notin {Missing, NonStr}
      /\ lower(strip(last.resp.intent)) = s_passport )
        => last.reply.kind = "passport_options"

\* C18: the fallback that takes the whole message as a country phrase runs
\* only when the document type at the start of the turn is visa: no message
\* is resolved as a country, and no correction prompt sets the document type
\* to visa, while the document type of the session is passport.
C18_FallbackOnlyForVisa ==
    (Answered /\ last.reply.rule = "fallback") => last.doc_before = "visa"

\* C19: a turn whose trimmed, lowercased message is exactly a greeting or a
\* closing phrase returns the fixed reply, leaves the document type of the
\* session as it was, in every session state, and does not consult the hint
\* source.
C19_SmallTalkKeepsState ==
    (Answered /\ lower(strip(last.message)) \in GREETINGS \cup CLOSINGS)
        => /\ last.reply.kind =
                (IF lower(strip(last.message)) \in GREETINGS THEN "greeting" ELSE "closing")
           /\ sessions[last.session_id] = last.doc_before
           /\ last.resp = NoResponse
           /\ last.result = NotConsulted

\* A greeting sent to an existing session that awaits a country: the session
\* still awaits it.
C19_Witness ==
    /\ Answered
    /\ ~last.new_session
    /\ lower(strip(last.message)) \in GREETINGS
    /\ last.doc_before = "visa"
    /\ last.reply.kind = "greeting"
    /\ sessions[last.session_id] = "visa"

\* C20: a turn addressed to a session never changes the document type of
\* another session of the store and never removes one: a session whose
\* document type changes in a step is the one the request named and was
\* served under.
C20_SessionIsolation ==
    [][ \A k \in DOMAIN sessions :
            /\ k \in DOMAIN sessions'
            /\ sessions'[k] # sessions[k]
                => /\ last' # NoTurn
                   /\ last'.session_id_in = k
                   /\ last'.session_id = k ]_vars

\* A turn has changed its own session while a second session, which awaits a
\* country, is as it was.
C20_Witness ==
    /\ Answered
    /\ ~last.new_session
    /\ sessions[last.session_id] # last.doc_before
    /\ \E k \in DOMAIN sessions : k # last.session_id /\ sessions[k] = "visa"

(***************************************************************************)
(* POST /chat served by several threads.  A request runs from its start to *)
(* the POST of the hint source in one step and from the answer of the hint *)
(* source to its return in a second one; other requests run in between.    *)
(***************************************************************************)
\* The messages and hint-source answers of the threaded runs.
ThreadMessages ==
    { <<"m","y"," ","P","a","s","s","p","o","r","t">>,
      <<"v","i","s","a">>,
      <<"j","a","p","a","n">>,
      <<"g","e","r","m","a","n","y","y">>,
      <<"v","i","s","a"," ","f","o","r"," ","c","h","a","d">> }

ThreadResponses ==
    {r \in HintResponses :
        \/ r.transport = "timeout"
        \/ r.raw = "object" /\ r.country = None}

\* session.get("doc_type") as thread t reads it through its `session`.
SessionRead(t) ==
    IF threads[t].live THEN sessions[threads[t].session_id] ELSE threads[t].frozen

\* reset_session(session_id) puts a new dict in the store: the threads that
\* hold the old one keep it as it is.
Detach(store, session_id) ==
    [u \in Workers |->
        IF threads[u].pc = "hint" /\ threads[u].session_id = session_id /\ threads[u].live
        THEN [threads[u] EXCEPT !.live = FALSE, !.frozen = store[session_id]]
        ELSE threads[u]]

\* The threads after a write to the store.
AfterWrite(store, session_id, write) ==
    IF write = "reset" THEN Detach(store, session_id) ELSE threads

\* The session ids a client can send: those a response has carried.
KnownIds ==
    DOMAIN sessions \
        {threads[u].session_id : u \in {w \in Workers : threads[w].new_session}}

\* Lines 782-842: the session is looked up, rules 1 to 4 are tried, and the
\* request either returns or goes on to ask the hint source.
Receive(t) ==
    /\ threads[t].pc = "idle"
    /\ \E session_id_in \in KnownIds \cup {NoId}, message \in ThreadMessages :
        \E uuid \in IF IsNewSession(sessions, session_id_in)
                    THEN uuid4(sessions) ELSE {session_id_in} :
            LET got == get_or_create_session(sessions, session_id_in, uuid)
                fast == FastPath(session_id_in = NoId, strip(message))
            IN  IF fast # {}
                THEN \E out \in fast :
                        /\ sessions' = ApplyWrite(got.store, got.session_id, out.write)
                        /\ threads' = AfterWrite(got.store, got.session_id, out.write)
                ELSE /\ sessions' = got.store
                     /\ threads' = [threads EXCEPT ![t] =
                            [pc |-> "hint", session_id |-> got.session_id,
                             new_session |-> IsNewSession(sessions, session_id_in),
                             message |-> message, live |-> TRUE, frozen |-> "none",
                             doc_at_start |-> get_session(got.store, got.session_id)]]
    /\ UNCHANGED <<country_links, alias_map, closest, last, probe, client>>

\* Lines 842-931: the hint source has answered; the request decides on the
\* doc_type it reads through `session`, writes and returns.
Answer(t) ==
    /\ threads[t].pc = "hint"
    /\ \E resp \in ThreadResponses :
        LET user_input == strip(threads[t].message)
            result == query_intent_and_country(user_input, resp)
        IN  \E out \in AfterHint(SessionRead(t), user_input, result) :
                /\ sessions' = ApplyWrite(sessions, threads[t].session_id, out.write)
                /\ threads' = [AfterWrite(sessions, threads[t].session_id, out.write)
                                  EXCEPT ![t] = IdleThread]
    /\ UNCHANGED <<country_links, alias_map, closest, last, probe, client>>

InitThreads ==
    /\ Loaded(DataDirs[1])
    /\ closest = {<<strip(m), MatchSteps(strip(m))>> : m \in ThreadMessages}
    /\ sessions = <<>>
    /\ last = NoTurn
    /\ probe = NoProbe
    /\ threads = [t \in Workers |-> IdleThread]
    /\ client = NoClient

NextThreads == \E t \in Workers : Receive(t) \/ Answer(t)

SpecThreads == InitThreads /\ [][NextThreads]_vars

\* C15: two requests for the same session never interleave inside a turn:
\* while a request is in progress, the session record it read at its start is
\* still the one the store holds, with the document type it had then, so the
\* value read at the start is the session's value at the later decisions and
\* writes of the turn.
C15_TurnsDoNotInterleave ==
    \A t \in Workers :
        threads[t].pc = "hint"
            => /\ threads[t].live
               /\ sessions[threads[t].session_id] = threads[t].doc_at_start

(***************************************************************************)
(* Rule 4, the links given and the confirmation (specification Spec).      *)
(***************************************************************************)
\* The lowercased message of the last turn.
LowerMessage == lower(strip(last.message))

\* The positions, in load order, of the registry keys that are substrings of
\* the message.
KeysInMessage ==
    {i \in 1..Len(country_links) : Contains(country_links[i][1], LowerMessage)}

\* The first of them.
FirstKeyInMessage ==
    country_links[CHOOSE i \in KeysInMessage : \A i2 \in KeysInMessage : i <= i2][1]

\* The message of the last turn is one for rule 4: no earlier rule takes it,
\* it contains "visa" and a registry key.
ForRule4 ==
    /\ Answered
    /\ LowerMessage \notin GREETINGS \cup CLOSINGS
    /\ ~(last.session_id_in = NoId /\ LowerMessage \in START_WORDS)
    /\ ~Contains(s_passport, LowerMessage)
    /\ Contains(s_visa, LowerMessage)
    /\ KeysInMessage # {}

\* C21: when the message contains "visa" and a registry key as a substring
\* and no earlier rule fired, the turn is resolved without the hint source and
\* without the matcher: the reply is about the first registry key, in load
\* order, that is a substring of the message (be it a fragment of a longer
\* key), it is the unsupported apology or the link reply for that key, never a
\* "Did you mean" prompt, and the session is reset.
C21_FastVisaFirstKey ==
    ForRule4 =>
        /\ last.reply.rule = "fast_visa"
        /\ last.resp = NoResponse
        /\ last.result = NotConsulted
        /\ last.reply.country = title(FirstKeyInMessage)
        /\ IF lower(FirstKeyInMessage) \in unsupported_countries
           THEN last.reply.kind = "unsupported"
           ELSE /\ last.reply.kind = "link"
                /\ last.reply.link = DictGet(country_links, FirstKeyInMessage)
        /\ sessions[last.session_id] = "none"

\* Two registry keys are in the message, the first a fragment of the second:
\* the reply is about the first, given to a session that awaited a country.
C21_Witness ==
    /\ ForRule4
    /\ \E i \in KeysInMessage : country_links[i][1] # FirstKeyInMessage
                                /\ Contains(FirstKeyInMessage, country_links[i][1])
    /\ last.doc_before = "visa"
    /\ last.reply.country = title(FirstKeyInMessage)
    /\ sessions[last.session_id] = "none"

(***************************************************************************)
(* The token step of the matcher (specification SpecHelpers).              *)
(***************************************************************************)
\* C22: in the token / n-gram step, reached only when the normalized phrase
\* is no registry key, the candidates are tried in generation order: the
\* single tokens from left to right, then for each start position its bigram
\* and its trigram; for each candidate the alias table is asked before the
\* registry and the first hit is returned, so a single token that hits wins
\* over a bigram or trigram that is a key too.
C22_TokenOrder ==
    probe.fn = "closest" =>
        LET run == probe.out
            normalized == normalize_country_alias(probe.arg)
            tokens == findall_az(normalized, <<>>, <<>>)
            spans == {sp \in (1..Len(tokens)) \X (1..3) : sp[1] + sp[2] - 1 <= Len(tokens)}
            text(sp) == join(SubSeq(tokens, sp[1], sp[1] + sp[2] - 1))
            rank(sp) == IF sp[2] = 1 THEN sp[1]
                        ELSE Len(tokens) + 2 * sp[1] + sp[2]
            hits == {sp \in spans : text(sp) \in Keys(alias_map) \cup Keys(country_links)}
            first == text(CHOOSE sp \in hits : \A o \in hits : rank(sp) <= rank(o))
        IN  /\ run.step = "token" <=> (normalized \notin Keys(country_links) /\ hits # {})
            /\ run.step = "token"
                => run.country = (IF first \in Keys(alias_map)
                                  THEN DictGet(alias_map, first) ELSE first)

\* A phrase with a bigram that is a registry key and, after it, a single
\* token that is one: the single token is returned.
C22_Witness ==
    /\ probe.fn = "closest"
    /\ probe.arg = <<"v","i","s","i","t"," ","u","n","i","t","e","d"," ","k","i","n","g","d","o","m"," ","j","a","p","a","n">>
    /\ <<"u","n","i","t","e","d"," ","k","i","n","g","d","o","m">> \in Keys(country_links)
    /\ probe.out.step = "token"
    /\ probe.out.country = <<"j","a","p","a","n">>

(***************************************************************************)
(* Link replies.                                                           *)
(***************************************************************************)
\* The reply of a turn that carries a link names a key of the link registry
\* that the support gate admits, with the link the registry stores for it.
LinkNamesSupportedKey ==
    \E i \in 1..Len(country_links) :
        LET c == country_links[i][1]
        IN  /\ last.reply.country = title(c)
            /\ lower(c) \notin unsupported_countries
            /\ last.reply.link = DictGet(country_links, c)

\* C23: a reply that contains a visa link names a country that is a key of
\* the link registry and is not in the unsupported set, the link is the one
\* the registry stores for that country, and no link is emitted in a turn
\* that started with document_type = passport.
C23_LinkOnlyForVisaSession ==
    (Answered /\ last.reply.kind = "link")
        => /\ LinkNamesSupportedKey
           /\ last.doc_before # "passport"

(***************************************************************************)
(* The page's script and the confirmation protocol (specification          *)
(* SpecConfirm): one page, which sends what the user types, except that a  *)
(* typed "yes" is replaced by the country of the last "Did you mean".      *)
(***************************************************************************)
ClientMessages ==
    { <<"y","e","s">>,
      <<"v","i","s","a">>,
      <<"h","o","l","l","a","n","d">>,
      <<"g","e","r","m","a","n","y","y">>,
      <<"u","k">>,
      <<"j","a","p","a","n">>,
      <<"t","h","a","n","k","s">>,
      <<"m","y"," ","P","a","s","s","p","o","r","t">> }

\* The countries the prompts of these data directories can propose.
Proposals ==
    { <<"H","o","l","l","a","n","d">>,
      <<"G","e","r","m","a","n","y">>,
      <<"U","n","i","t","e","d"," ","K","i","n","g","d","o","m">>,
      <<"N","e","t","h","e","r","l","a","n","d","s">> }

s_yes == <<"y","e","s">>

\* The message that is posted for the typed one.
effectiveMessage(message, last_corrected_country) ==
    IF lower(message) = s_yes /\ Truthy(last_corrected_country)
    THEN last_corrected_country ELSE message

sendMessage ==
    \E typed \in ClientMessages :
        LET message == strip(typed)
            accepted == lower(message) = s_yes /\ Truthy(client.last_corrected_country)
            effective == effectiveMessage(message, client.last_corrected_country)
        IN  /\ message # <<>>
            /\ \E resp \in IF AsksHintSource(client.session_id, effective)
                           THEN HintResponses ELSE {NoResponse} :
                    chat_response(client.session_id, effective, resp)
            /\ client' = [session_id |-> last'.session_id,
                          last_corrected_country |->
                              IF last'.reply.kind = "confirm" /\ last'.reply.country # <<>>
                              THEN last'.reply.country
                              ELSE IF accepted THEN None
                              ELSE client.last_corrected_country]

InitConfirm ==
    /\ \E d \in 1..Len(DataDirs) : Loaded(DataDirs[d])
    /\ closest = {<<ph, MatchSteps(ph)>> :
                    ph \in {strip(m) : m \in ClientMessages} \cup Proposals \cup
                           {normalize_country_alias(query_intent_and_country(<<"x">>, r).country) :
                               r \in {g \in GoodResponses : g.country # None /\ g.country # NonStr}}}
    /\ sessions = <<>>
    /\ last = NoTurn
    /\ probe = NoProbe
    /\ threads = [t \in Workers |-> IdleThread]
    /\ client = NoClient

SpecConfirm == InitConfirm /\ [][sendMessage]_vars

\* C24: confirmation converges: after a "Did you mean **C**?" reply, when
\* the proposed country C is sent as the next message of the same session,
\* that turn ends in a terminal reply (link, unsupported apology or no-link
\* apology) with document_type reset to none, and never in another "Did you
\* mean" prompt, whatever the registry and the alias table hold.
C24_ConfirmationConverges ==
    [][ ( /\ last.reply.kind = "confirm"
          /\ last'.session_id_in = last.session_id
          /\ last'.message = last.reply.country )
        => ( /\ last'.reply.kind \in {"link", "unsupported", "no_link"}
             /\ sessions'[last'.session_id] = "none" ) ]_vars

(***************************************************************************)
(* The link registry.                                                      *)
(***************************************************************************)
\* C25: the link registry holds non-empty links only, rows with an empty
\* country or link being skipped at load, so rule 4 never gives the no-link
\* apology: once a registry key matched as a substring, the reply is the
\* unsupported apology or the link reply.
C25_RegistryLinksNonEmpty ==
    /\ \A i \in 1..Len(country_links) :
            /\ country_links[i][1] # <<>>
            /\ country_links[i][2] # None
            /\ country_links[i][2] # <<>>
    /\ (Answered /\ last.reply.rule = "fast_visa")
            => last.reply.kind \in {"unsupported", "link"}

\* Rule 4 answers with the link of a key for which the file also has a row
\* with a blank link.
C25_Witness ==
    /\ Answered
    /\ last.reply.rule = "fast_visa"
    /\ last.reply.kind = "link"
    /\ last.reply.link # <<>>
    /\ \E d \in 1..Len(DataDirs) :
        /\ country_links = load_country_links(DataDirs[d].country_links_csv)
        /\ \E k \in 1..Len(DataDirs[d].country_links_csv.rows) :
            LET row == DataDirs[d].country_links_csv.rows[k]
            IN  /\ title(lower(strip(row.country))) = last.reply.country
                /\ strip(row.visa_link) = <<>>

=============================================================================
